---- MODULE Spec2Model ----
(***************************************************************************)
(* Model of investment_dashboard.py: one script run per user interaction.  *)
(* A run reads the uploaded table, checks the required columns, drops      *)
(* incomplete rows, derives the per-record metrics, applies the filters,   *)
(* computes the portfolio and per-fund aggregates and the cumulative       *)
(* series, builds the top / lowest lists and offers the exports.           *)
(*                                                                         *)
(* Floating-point values are modelled as exact rationals n/d extended with *)
(* the IEEE specials: d = 0 encodes +inf (n = 1), -inf (n = -1) and NaN    *)
(* (n = 0).  Rounding error is not modelled.                               *)
(***************************************************************************)
EXTENDS Integers, Sequences, FiniteSets, TLC

\* ------------------------------------------------------------ bounds

\* Largest number of data rows of an uploaded table.
MaxRows == 3

\* Largest number of rows of a table in the top-N specification.
MaxTopRows == 5

\* ------------------------------------------------------------ floats

RECURSIVE Gcd(_, _)
Gcd(a, b) == IF b = 0 THEN a ELSE Gcd(b, a % b)

Abs(x) == IF x < 0 THEN -x ELSE x

\* The rational n/d (d # 0) in lowest terms with a positive denominator.
Frac(n, d) ==
    LET g == Gcd(Abs(n), Abs(d))
        s == IF d < 0 THEN -1 ELSE 1
    IN  [n |-> (s * n) \div g, d |-> (s * d) \div g]

FromInt(i) == [n |-> i, d |-> 1]
NaN == [n |-> 0, d |-> 0]
PosInf == [n |-> 1, d |-> 0]
NegInf == [n |-> -1, d |-> 0]

IsNaN(x) == x.d = 0 /\ x.n = 0
IsInf(x) == x.d = 0 /\ x.n # 0
Sign(x) == IF x.n > 0 THEN 1 ELSE IF x.n < 0 THEN -1 ELSE 0

\* IEEE-754 addition, as numpy performs it.
FAdd(a, b) ==
    IF IsNaN(a) \/ IsNaN(b) THEN NaN
    ELSE IF IsInf(a) /\ IsInf(b) THEN (IF a.n = b.n THEN a ELSE NaN)
    ELSE IF IsInf(a) THEN a
    ELSE IF IsInf(b) THEN b
    ELSE Frac(a.n * b.d + b.n * a.d, a.d * b.d)

FNeg(a) == [n |-> -a.n, d |-> a.d]

FSub(a, b) == FAdd(a, FNeg(b))

\* IEEE-754 multiplication.
FMul(a, b) ==
    IF IsNaN(a) \/ IsNaN(b) THEN NaN
    ELSE IF IsInf(a) \/ IsInf(b)
         THEN (IF Sign(a) * Sign(b) = 0 THEN NaN
               ELSE IF Sign(a) * Sign(b) > 0 THEN PosInf ELSE NegInf)
    ELSE Frac(a.n * b.n, a.d * b.d)

\* IEEE-754 division as numpy / pandas perform it on numeric columns and
\* numpy scalars: x/0 is +-inf, 0/0 is NaN, and nothing is raised.
FDiv(a, b) ==
    IF IsNaN(a) \/ IsNaN(b) THEN NaN
    ELSE IF IsInf(a) /\ IsInf(b) THEN NaN
    ELSE IF IsInf(a) THEN (IF Sign(b) < 0 THEN FNeg(a) ELSE a)
    ELSE IF IsInf(b) THEN FromInt(0)
    ELSE IF b.n = 0
         THEN (IF a.n = 0 THEN NaN ELSE IF a.n > 0 THEN PosInf ELSE NegInf)
    ELSE Frac(a.n * b.d, a.d * b.n)

\* a < b on finite values.
FLess(a, b) == a.n * b.d < b.n * a.d

\* ------------------------------------------------------------ cells

\* A cell of a numeric column: empty, text that is no number, or a number.
NullCell == [t |-> "null", v |-> 0]
TextCell == [t |-> "str", v |-> 0]
NumCell(i) == [t |-> "num", v |-> i]

\* A cell of the Date column: empty, text that is no date, or a timestamp
\* (a day number and whether it is the morning (0) or afternoon (1) half).
NullDate == [t |-> "null", day |-> 0, half |-> 0]
BadDate == [t |-> "str", day |-> 0, half |-> 0]
Stamp(day, half) == [t |-> "ts", day |-> day, half |-> half]

\* Text is a sequence of tokens, " " being a whitespace character.
\* A text cell is empty (NaN) or holds text; a header is text.
NullText == [t |-> "null", s |-> << >>]
Text(s) == [t |-> "str", s |-> s]

\* pandas.isna on a cell of any column.
isna(c) == c.t = "null"

RECURSIVE lstrip(_)
lstrip(s) == IF s # << >> /\ Head(s) = " " THEN lstrip(Tail(s)) ELSE s

RECURSIVE rstrip(_)
rstrip(s) ==
    IF s # << >> /\ s[Len(s)] = " " THEN rstrip(SubSeq(s, 1, Len(s) - 1)) ELSE s

\* str.strip: leading and trailing whitespace removed, inner whitespace kept.
strip(s) == rstrip(lstrip(s))

\* str.lower on one token.
LowerToken(tok) ==
    CASE tok = "Realized" -> "realized"
      [] tok = "Unrealized" -> "unrealized"
      [] tok = "All" -> "all"
      [] OTHER -> tok

\* str.lower on text.
lower(s) == [i \in 1..Len(s) |-> LowerToken(s[i])]

\* astype(str) on a text cell: NaN becomes the text "nan".
astype_str(c) == IF isna(c) THEN <<"nan">> ELSE c.s

\* ------------------------------------------------------------ columns

InvestmentNameCol == <<"Investment", " ", "Name">>
CostCol == <<"Cost">>
FairValueCol == <<"Fair", " ", "Value">>
DateCol == <<"Date">>
FundNameCol == <<"Fund", " ", "Name">>
RealizedCol == <<"Realized", " ", "/", " ", "Unrealized">>

required_columns ==
    {InvestmentNameCol, CostCol, FairValueCol, DateCol, FundNameCol}

realization_options == {"All", "Realized", "Unrealized"}

\* The number of entries of the top and lowest lists.
TopN == 3

\* Days per year of the annualisation, 365.25 = 1461 / 4.
DaysPerYear == [n |-> 1461, d |-> 4]

\* pd.Timestamp.today(): the evaluation instant, the morning of day 2.
today == Stamp(2, 0)

\* ------------------------------------------------------------ inputs

Row(name, cost, fv, date, fund, realized) ==
    [InvestmentName |-> name, Cost |-> cost, FairValue |-> fv, Date |-> date,
     FundName |-> fund, Realized |-> realized]

\* The rows an uploaded table is made of: sound records that differ in
\* cost, value, age, fund and status, and one row per kind of defect.
RowPool ==
    { Row(Text(<<"A">>), NumCell(1), NumCell(3), Stamp(0, 0), Text(<<"F">>),
          Text(<<"Realized">>)),
      Row(Text(<<"B">>), NumCell(2), NumCell(1), Stamp(1, 0), Text(<<"G">>),
          Text(<<" ", "Unrealized", " ">>)),
      Row(Text(<<"C">>), NumCell(2), NumCell(3), Stamp(0, 0), Text(<<"F">>),
          Text(<<"unrealized">>)),
      \* zero cost
      Row(Text(<<"D">>), NumCell(0), NumCell(3), Stamp(1, 0), Text(<<"G">>),
          Text(<<"Realized">>)),
      \* bought yesterday afternoon (less than one whole day ago) and
      \* dated tomorrow
      Row(Text(<<"H">>), NumCell(1), NumCell(3), Stamp(1, 1), Text(<<"F">>),
          NullText),
      Row(Text(<<"J">>), NumCell(1), NumCell(1), Stamp(3, 0), Text(<<"G">>),
          Text(<<"Realized">>)),
      \* empty cells
      Row(Text(<<"K">>), NullCell, NumCell(3), Stamp(0, 0), Text(<<"F">>),
          Text(<<"Realized">>)),
      Row(Text(<<"L">>), NumCell(1), NullCell, Stamp(0, 0), Text(<<"G">>),
          Text(<<"Realized">>)),
      \* (no date, and text for the fair value: the row is dropped but
      \* leaves the Fair Value column with dtype object)
      Row(Text(<<"M">>), NumCell(1), TextCell, NullDate, Text(<<"F">>),
          Text(<<"Realized">>)),
      Row(NullText, NumCell(1), NumCell(3), Stamp(0, 0), Text(<<"F">>),
          Text(<<"Realized">>)),
      Row(Text(<<"N">>), NumCell(2), NumCell(1), Stamp(1, 0), NullText,
          Text(<<"Realized">>)),
      \* cells that do not parse
      Row(Text(<<"O">>), NumCell(1), NumCell(3), BadDate, Text(<<"G">>),
          Text(<<"Realized">>)),
      Row(Text(<<"P">>), TextCell, NumCell(3), Stamp(0, 0), Text(<<"F">>),
          Text(<<"Realized">>)) }

\* The header rows of an uploaded file: all six columns, bare or padded
\* with whitespace; no status column; one required column absent; and the
\* Cost column spelled in lower case.
pad(h) == <<" ">> \o h \o <<" ", " ">>

HeaderChoices ==
    LET all == required_columns \cup {RealizedCol}
    IN  {all, {pad(h) : h \in all}, required_columns}
        \cup {all \ {h} : h \in required_columns}
        \cup {(all \ {CostCol}) \cup {<<"cost">>}}

\* A row of a table that has only the columns cols: the cells of the
\* other columns do not exist and are left empty.
Project(row, cols) ==
    LET has(h) == h \in cols
    IN  Row(IF has(InvestmentNameCol) THEN row.InvestmentName ELSE NullText,
            IF has(CostCol) THEN row.Cost ELSE NullCell,
            IF has(FairValueCol) THEN row.FairValue ELSE NullCell,
            IF has(DateCol) THEN row.Date ELSE NullDate,
            IF has(FundNameCol) THEN row.FundName ELSE NullText,
            IF has(RealizedCol) THEN row.Realized ELSE NullText)

\* ------------------------------------------------------------ state

VARIABLES
    download_csv,       \* the value of the CSV export button (line 15)
    download_pdf,       \* the value of the PDF export button (line 16)
    pc,                 \* the statement the run has reached; a run that
                        \* raised stays at the statement that raised
    status,             \* how the run stands or ended
    uploaded_file,      \* whether a file is uploaded
    df_columns,         \* df.columns
    df_dtypes,          \* the numeric columns pandas read as dtype object
    df,                 \* the data frame, a sequence of rows
    realization_filter, \* the radio button's value
    unique_funds,       \* the options of the fund selector
    selected_funds,     \* the fund selector's value
    df_filtered,        \* the filtered frame
    summary,            \* the names lines 71-91 have assigned
    charts,             \* the frames lines 97-130 have assigned
    ai,                 \* top_roi_df and low_roi_df
    exports             \* the download buttons the run has offered

vars == <<download_csv, download_pdf, pc, status, uploaded_file, df_columns, df_dtypes, df,
          realization_filter, unique_funds, selected_funds, df_filtered,
          summary, charts, ai, exports>>

\* No name is assigned yet.
Unset == << >>

Init ==
    /\ download_csv = FALSE
    /\ download_pdf = FALSE
    /\ pc = "idle"
    /\ status = "idle"
    /\ uploaded_file = FALSE
    /\ df_columns = {}
    /\ df_dtypes = {}
    /\ df = << >>
    /\ realization_filter = "All"
    /\ unique_funds = {}
    /\ selected_funds = {}
    /\ df_filtered = << >>
    /\ summary = Unset
    /\ charts = Unset
    /\ ai = Unset
    /\ exports = {}

\* ------------------------------------------------------------ lines 21-30

\* The columns pandas reads as dtype object: a numeric column that holds
\* a text cell keeps Python objects, also after rows are dropped.
ObjectColumns(rows) ==
    {c \in {"Cost", "FairValue"} : \E i \in 1..Len(rows) : rows[i][c].t = "str"}

\* df.columns.str.strip()
StripColumns(headers) == {strip(h) : h \in headers}

\* pd.read_excel and the header strip: the frame holds the file's rows
\* under the stripped headers, indexed 0, 1, ... in file order.
ReadExcel(headers, rows) ==
    LET cols == StripColumns(headers)
    IN  [i \in 1..Len(rows) |-> Project(rows[i], cols) @@ [index |-> i - 1]]

\* Lines 15-16: the sidebar's export buttons are read at the top of
\* every run, before the file is looked at. st.button is True only in
\* the run that a click on it started, and one click starts one run, so
\* at most one of the two is True.
ReadButtons ==
    /\ download_csv' \in BOOLEAN
    /\ download_pdf' \in BOOLEAN
    /\ ~(download_csv' /\ download_pdf')

\* A file is uploaded: the script runs, reads the buttons (lines 15-16)
\* and the file (line 29) and strips the headers (line 30).
Upload ==
    /\ pc = "idle"
    /\ ReadButtons
    /\ \E n \in 0..MaxRows, headers \in HeaderChoices :
         \E rows \in [1..n -> RowPool] :
            /\ uploaded_file' = TRUE
            /\ df_columns' = StripColumns(headers)
            /\ df' = ReadExcel(headers, rows)
            /\ df_dtypes' = ObjectColumns(ReadExcel(headers, rows))
    /\ pc' = "columns"
    /\ status' = "running"
    /\ UNCHANGED <<realization_filter, unique_funds, selected_funds, df_filtered, summary,
                   charts, ai, exports>>

\* The script runs with no file uploaded: line 28 skips everything.
RunWithoutFile ==
    /\ pc = "idle"
    /\ ReadButtons
    /\ pc' = "end"
    /\ status' = "no_file"
    /\ UNCHANGED <<uploaded_file, df_columns, df_dtypes, df,
                   realization_filter, unique_funds, selected_funds,
                   df_filtered, summary, charts, ai, exports>>

\* ------------------------------------------------------------ lines 32-34

\* The check with any() written for all().
HasRequiredColumns_Any(cols) == \E col \in required_columns : col \in cols

HasRequiredColumns(cols) == \A col \in required_columns : col \in cols

\* Line 33: the run ends with st.error when a required column is absent.
CheckColumns ==
    /\ pc = "columns"
    /\ status = "running"
    /\ IF HasRequiredColumns(df_columns)
       THEN pc' = "dropna" /\ status' = status
       ELSE pc' = "end" /\ status' = "missing_columns"
    /\ UNCHANGED <<download_csv, download_pdf, uploaded_file, df_columns, df_dtypes, df,
                   realization_filter, unique_funds, selected_funds,
                   df_filtered, summary, charts, ai, exports>>

\* ------------------------------------------------------------ lines 36-38

\* pd.to_datetime(errors='coerce') on one cell: text that is no date
\* becomes NaT.
to_datetime(c) == IF c.t = "str" THEN NullDate ELSE c

\* Lines 36-38: rows with an empty Cost, Fair Value or Date are dropped,
\* the dates parsed, and rows whose date did not parse dropped.
DropRows(rows) ==
    LET kept == SelectSeq(rows, LAMBDA r :
                    ~isna(r.Cost) /\ ~isna(r.FairValue) /\ ~isna(r.Date))
        parsed == [i \in 1..Len(kept) |->
                    [kept[i] EXCEPT !.Date = to_datetime(kept[i].Date)]]
    IN  SelectSeq(parsed, LAMBDA r : ~isna(r.Date))

Normalize ==
    /\ pc = "dropna"
    /\ status = "running"
    /\ df' = DropRows(df)
    /\ pc' = "metrics"
    /\ UNCHANGED <<download_csv, download_pdf, status, uploaded_file, df_columns, df_dtypes,
                   realization_filter, unique_funds, selected_funds,
                   df_filtered, summary, charts, ai, exports>>

\* ------------------------------------------------------------ lines 40-48

\* (today - row["Date"]).days: the whole days of the difference, rounded
\* down (a Timedelta of -0.5 days has .days = -1).
days(date) ==
    (today.day - date.day) - (IF today.half < date.half THEN 1 ELSE 0)

\* Line 40, for one row of numeric columns.
MOIC(row) == FDiv(FromInt(row.FairValue.v), FromInt(row.Cost.v))

\* Line 43, for one row of numeric columns.
ROI(row) ==
    FDiv(FSub(FromInt(row.FairValue.v), FromInt(row.Cost.v)),
         FromInt(row.Cost.v))

\* The lambda without its guard on the holding period.
AnnualizedROI_NoDaysGuard(row) ==
    IF row.Cost.v > 0
    THEN FDiv(FSub(FDiv(FromInt(row.FairValue.v), FromInt(row.Cost.v)),
                   FromInt(1)),
              FDiv(FromInt(days(row.Date)), DaysPerYear))
    ELSE NaN

\* Lines 44-48, the lambda applied to one row.
AnnualizedROI(row) ==
    IF row.Cost.v > 0 /\ days(row.Date) > 0
    THEN FDiv(FSub(FDiv(FromInt(row.FairValue.v), FromInt(row.Cost.v)),
                   FromInt(1)),
              FDiv(FromInt(days(row.Date)), DaysPerYear))
    ELSE NaN

\* The frame with the three metric columns added.
WithMetrics(rows) ==
    [i \in 1..Len(rows) |->
        rows[i] @@ [MOIC |-> MOIC(rows[i]), ROI |-> ROI(rows[i]),
                    AnnualizedROI |-> AnnualizedROI(rows[i])]]

\* Line 40 raises TypeError when a kept row holds text in Cost or Fair
\* Value, and ZeroDivisionError when either column has dtype object (its
\* cells are Python numbers) and a kept row has cost 0.
MetricsRaise(rows, dtypes) ==
    \/ \E i \in 1..Len(rows) :
          rows[i].Cost.t = "str" \/ rows[i].FairValue.t = "str"
    \/ /\ dtypes # {}
       /\ \E i \in 1..Len(rows) : rows[i].Cost.v = 0

RowMetrics ==
    /\ pc = "metrics"
    /\ status = "running"
    /\ IF MetricsRaise(df, df_dtypes)
       THEN /\ pc' = pc
            /\ status' = "raised"
            /\ df' = df
       ELSE /\ pc' = "filter"
            /\ status' = status
            /\ df' = WithMetrics(df)
    /\ UNCHANGED <<download_csv, download_pdf, uploaded_file, df_columns, df_dtypes,
                   realization_filter, unique_funds, selected_funds,
                   df_filtered, summary, charts, ai, exports>>

\* ------------------------------------------------------------ lines 50-69

\* Line 50: sorted(df["Fund Name"].dropna().unique()), as a set.
UniqueFunds(rows) ==
    {rows[i].FundName.s : i \in {j \in 1..Len(rows) : ~isna(rows[j].FundName)}}

\* Line 58: the status column as stripped lower-case text.
NormalizeStatus(rows) ==
    [i \in 1..Len(rows) |->
        [rows[i] EXCEPT !.Realized = Text(lower(strip(astype_str(@))))]]

\* Lines 57-61: the status filter, applied only when the column exists.
FilterStatus(rows, cols, choice) ==
    IF RealizedCol \in cols
    THEN IF choice # "All"
         THEN SelectSeq(NormalizeStatus(rows),
                        LAMBDA r : r.Realized.s = lower(<<choice>>))
         ELSE NormalizeStatus(rows)
    ELSE rows

\* Line 64: isin(selected_funds); an empty fund name is in no list.
FilterFunds(rows, selected) ==
    SelectSeq(rows, LAMBDA r : ~isna(r.FundName) /\ r.FundName.s \in selected)

\* Line 66: reset_index(drop=True).
reset_index(rows) == [i \in 1..Len(rows) |-> [rows[i] EXCEPT !.index = i - 1]]

\* Lines 54-66.
ApplyFilters(rows, cols, choice, selected) ==
    reset_index(FilterFunds(FilterStatus(rows, cols, choice), selected))

\* The gate that lets every branch run, empty frame or not.
empty_Never(frame) == FALSE

\* df_filtered.empty (line 68)
empty(frame) == frame = << >>

\* Lines 50-69: the widgets' values are read (the radio button of line
\* 26 is first used here), the frame is filtered, and the run ends with
\* st.warning when nothing is left.
Filter ==
    /\ pc = "filter"
    /\ status = "running"
    /\ unique_funds' = UniqueFunds(df)
    /\ \E choice \in realization_options, selected \in SUBSET UniqueFunds(df) :
          /\ realization_filter' = choice
          /\ selected_funds' = selected
          /\ df_filtered' = ApplyFilters(df, df_columns, choice, selected)
    /\ IF empty(df_filtered')
       THEN pc' = "end" /\ status' = "no_match"
       ELSE pc' = "summary" /\ status' = status
    /\ UNCHANGED <<download_csv, download_pdf, uploaded_file, df_columns, df_dtypes, df, summary,
                   charts, ai, exports>>

\* ------------------------------------------------------------ lines 71-91

RECURSIVE SumInt(_, _)
\* Series.sum() of the numeric column col.
SumInt(rows, col) ==
    IF rows = << >> THEN 0 ELSE rows[1][col].v + SumInt(Tail(rows), col)

RECURSIVE WeightedSum(_)
\* sum(a * w) of np.average: one NaN value makes the sum NaN.
WeightedSum(rows) ==
    IF rows = << >> THEN FromInt(0)
    ELSE FAdd(FMul(rows[1].AnnualizedROI, FromInt(rows[1].Cost.v)),
              WeightedSum(Tail(rows)))

\* np.average raises ZeroDivisionError when the weights sum to zero.
AverageRaises(rows) == SumInt(rows, "Cost") = 0

\* np.average(rows["Annualized ROI"], weights=rows["Cost"]) otherwise.
np_average(rows) == FDiv(WeightedSum(rows), FromInt(SumInt(rows, "Cost")))

\* Line 73.
portfolio_moic(total_fair_value, total_invested) ==
    IF total_invested # 0
    THEN FDiv(FromInt(total_fair_value), FromInt(total_invested))
    ELSE FromInt(0)

\* Line 74.
portfolio_roi(total_fair_value, total_invested) ==
    FDiv(FromInt(total_fair_value - total_invested), FromInt(total_invested))

\* Lines 85-89: the fair value of the rows of one status, 0 when the
\* status column does not exist.
StatusValue(rows, cols, word) ==
    IF RealizedCol \in cols
    THEN SumInt(SelectSeq(rows, LAMBDA r : r.Realized.s = <<word>>), "FairValue")
    ELSE 0

\* Line 90.
dpi(realized_distributions, total_invested) ==
    IF total_invested # 0
    THEN FDiv(FromInt(realized_distributions), FromInt(total_invested))
    ELSE NaN

\* Line 91.
tvpi(realized_distributions, residual_value, total_invested) ==
    IF total_invested # 0
    THEN FDiv(FromInt(realized_distributions + residual_value),
              FromInt(total_invested))
    ELSE NaN

\* The names lines 71-74 assign.
SummaryTotals(rows) ==
    LET ti == SumInt(rows, "Cost")
        tfv == SumInt(rows, "FairValue")
    IN  [total_invested |-> ti, total_fair_value |-> tfv,
         portfolio_moic |-> portfolio_moic(tfv, ti),
         portfolio_roi |-> portfolio_roi(tfv, ti)]

\* The names lines 76-91 assign.
SummaryRest(rows, cols) ==
    LET ti == SumInt(rows, "Cost")
        rd == StatusValue(rows, cols, "realized")
        rv == StatusValue(rows, cols, "unrealized")
    IN  [portfolio_annualized_roi |-> np_average(rows),
         dpi |-> dpi(rd, ti), tvpi |-> tvpi(rd, rv, ti)]

\* Lines 71-91: the summary metrics; line 76 raises when the costs sum
\* to zero, after lines 71-74 have run.
PortfolioSummary ==
    /\ pc = "summary"
    /\ status = "running"
    /\ IF AverageRaises(df_filtered)
       THEN /\ summary' = SummaryTotals(df_filtered)
            /\ pc' = pc
            /\ status' = "raised"
       ELSE /\ summary' = SummaryTotals(df_filtered)
                            @@ SummaryRest(df_filtered, df_columns)
            /\ pc' = "charts"
            /\ status' = status
    /\ UNCHANGED <<download_csv, download_pdf, uploaded_file, df_columns, df_dtypes, df,
                   realization_filter, unique_funds, selected_funds,
                   df_filtered, charts, ai, exports>>

\* ------------------------------------------------------------ lines 97-130

\* groupby("Fund Name"): the group keys (empty names are left out) and
\* a group's rows in frame order.
FundKeys(rows) == UniqueFunds(rows)

FundGroup(rows, fund) ==
    SelectSeq(rows, LAMBDA r : ~isna(r.FundName) /\ r.FundName.s = fund)

\* Line 97, for one group.
GroupMOIC(group) ==
    FDiv(FromInt(SumInt(group, "FairValue")), FromInt(SumInt(group, "Cost")))

\* Line 97: one row per group key.
moic_by_fund(rows) ==
    [fund \in FundKeys(rows) |-> GroupMOIC(FundGroup(rows, fund))]

\* Line 104, for one group.
GroupROI(group) ==
    IF SumInt(group, "Cost") > 0 THEN np_average(group) ELSE NaN

\* Lines 103-105: one row per group key.
roi_fund(rows) ==
    [fund \in FundKeys(rows) |-> GroupROI(FundGroup(rows, fund))]

DateLess(a, b) == a.day < b.day \/ (a.day = b.day /\ a.half < b.half)

RECURSIVE SortDates(_)
\* sort_index(): the group keys in ascending order.
SortDates(S) ==
    IF S = {} THEN << >>
    ELSE LET m == CHOOSE x \in S : \A y \in S : ~DateLess(y, x)
         IN  <<m>> \o SortDates(S \ {m})

\* groupby("Date").agg(sum).sort_index(): one row per distinct date.
SumByDate(rows) ==
    LET keys == SortDates({rows[i].Date : i \in 1..Len(rows)})
        on(d) == SelectSeq(rows, LAMBDA r : r.Date = d)
    IN  [k \in 1..Len(keys) |->
            [Date |-> keys[k], Cost |-> SumInt(on(keys[k]), "Cost"),
             FairValue |-> SumInt(on(keys[k]), "FairValue")]]

RECURSIVE cumsum(_)
\* DataFrame.cumsum() on the Cost and Fair Value columns.
cumsum(series) ==
    IF Len(series) <= 1 THEN series
    ELSE LET head == cumsum(SubSeq(series, 1, Len(series) - 1))
             last == series[Len(series)]
             prev == head[Len(head)]
         IN  Append(head, [Date |-> last.Date, Cost |-> prev.Cost + last.Cost,
                           FairValue |-> prev.FairValue + last.FairValue])

\* Line 130 without the running sum.
cost_value_df_NoCumsum(rows) == SumByDate(rows)

\* Line 130.
cost_value_df(rows) == cumsum(SumByDate(rows))

\* The frames lines 97-130 assign.
ChartFrames(rows) ==
    [moic_by_fund |-> moic_by_fund(rows), roi_fund |-> roi_fund(rows),
     cost_value_df |-> cost_value_df(rows)]

\* Lines 97-132: the per-fund frames and the cumulative series.
FundCharts ==
    /\ pc = "charts"
    /\ status = "running"
    /\ charts' = ChartFrames(df_filtered)
    /\ pc' = "ai"
    /\ UNCHANGED <<download_csv, download_pdf, status, uploaded_file, df_columns, df_dtypes, df,
                   realization_filter, unique_funds, selected_funds,
                   df_filtered, summary, ai, exports>>

\* ------------------------------------------------------------ lines 193-200

\* Whether row a sorts strictly before row b.
Before(a, b, ascending) ==
    IF ascending THEN FLess(a.AnnualizedROI, b.AnnualizedROI)
    ELSE FLess(b.AnnualizedROI, a.AnnualizedROI)

RECURSIVE SortedOrders(_, _, _)
\* The orders sort_values (kind quicksort, which is not stable) can give
\* the rows numbered S: sorted by the metric, ties in any order.
SortedOrders(rows, S, ascending) ==
    IF S = {} THEN {<< >>}
    ELSE UNION { {<<i>> \o p : p \in SortedOrders(rows, S \ {i}, ascending)} :
                 i \in {j \in S : \A k \in S :
                          ~Before(rows[k], rows[j], ascending)} }

\* The frames sort_values("Annualized ROI", ascending=...) can return.
sort_values(rows, ascending) ==
    { [i \in 1..Len(p) |-> rows[p[i]]] :
        p \in SortedOrders(rows, 1..Len(rows), ascending) }

\* DataFrame.head(n).
head(rows, n) == SubSeq(rows, 1, IF Len(rows) < n THEN Len(rows) ELSE n)

\* The selection left out: every row is kept.
notnull_Skipped(rows) == rows

\* df_filtered[df_filtered["Annualized ROI"].notnull()]
notnull(rows) == SelectSeq(rows, LAMBDA r : ~IsNaN(r.AnnualizedROI))

\* Lines 193 and 195: the frames the top (descending) or lowest
\* (ascending) list can be.
TopFrames(rows, ascending) ==
    {head(sorted, TopN) : sorted \in sort_values(notnull(rows), ascending)}

\* Lines 198-199: ', '.join raises TypeError on a name that is NaN.
JoinRaises(frame) == \E i \in 1..Len(frame) : isna(frame[i].InvestmentName)

\* Lines 193-200.
AISummary ==
    /\ pc = "ai"
    /\ status = "running"
    /\ \E top \in TopFrames(df_filtered, FALSE),
          low \in TopFrames(df_filtered, TRUE) :
          /\ ai' = [top_roi_df |-> top, low_roi_df |-> low]
          /\ IF JoinRaises(top) \/ JoinRaises(low)
             THEN pc' = pc /\ status' = "raised"
             ELSE pc' = "export" /\ status' = status
    /\ UNCHANGED <<download_csv, download_pdf, uploaded_file, df_columns, df_dtypes, df,
                   realization_filter, unique_funds, selected_funds,
                   df_filtered, summary, charts, exports>>

\* ------------------------------------------------------------ lines 252-364

\* Lines 252-364: a download is offered for each export button that
\* lines 15-16 read as pressed in this run.
Export ==
    /\ pc = "export"
    /\ status = "running"
    /\ exports' = (IF download_csv THEN {"csv"} ELSE {})
                     \cup (IF download_pdf THEN {"pdf"} ELSE {})
    /\ pc' = "end"
    /\ status' = "complete"
    /\ UNCHANGED <<download_csv, download_pdf, uploaded_file, df_columns, df_dtypes, df,
                   realization_filter, unique_funds, selected_funds,
                   df_filtered, summary, charts, ai>>

\* The next interaction, after a run has ended (normally, or with the
\* exception that escaped): the script starts again from the top and
\* every name of the previous run is gone.
Rerun ==
    /\ status \notin {"idle", "running"}
    /\ download_csv' = FALSE
    /\ download_pdf' = FALSE
    /\ pc' = "idle"
    /\ status' = "idle"
    /\ uploaded_file' = FALSE
    /\ df_columns' = {}
    /\ df_dtypes' = {}
    /\ df' = << >>
    /\ realization_filter' = "All"
    /\ unique_funds' = {}
    /\ selected_funds' = {}
    /\ df_filtered' = << >>
    /\ summary' = Unset
    /\ charts' = Unset
    /\ ai' = Unset
    /\ exports' = {}

Next ==
    \/ Upload
    \/ RunWithoutFile
    \/ CheckColumns
    \/ Normalize
    \/ RowMetrics
    \/ Filter
    \/ PortfolioSummary
    \/ FundCharts
    \/ AISummary
    \/ Export
    \/ Rerun

Spec == Init /\ [][Next]_vars

\* ------------------------------------------------------------ top-N runs

\* Rows that pass every step up to the lists: positive cost, a date, a
\* name and a fund; their annualized ROI is positive, negative or
\* undefined (bought less than a day ago, or dated ahead).
TopPool ==
    {r \in RowPool :
        /\ r.Cost.t = "num" /\ r.Cost.v > 0 /\ r.FairValue.t = "num"
        /\ r.Date.t = "ts" /\ ~isna(r.InvestmentName) /\ ~isna(r.FundName)}

\* A run on a table of up to MaxTopRows such rows, with no status
\* column, 'All' and every fund selected, that has reached line 193.
InitTopN ==
    \E n \in 1..MaxTopRows :
       \E rows \in [1..n -> TopPool] :
          LET frame == WithMetrics(DropRows(ReadExcel(required_columns, rows)))
              funds == UniqueFunds(frame)
              kept == ApplyFilters(frame, required_columns, "All", funds)
          IN  /\ pc = "ai"
              /\ status = "running"
              /\ download_csv = FALSE
              /\ download_pdf = FALSE
              /\ uploaded_file = TRUE
              /\ df_columns = required_columns
              /\ df_dtypes = {}
              /\ df = frame
              /\ realization_filter = "All"
              /\ unique_funds = funds
              /\ selected_funds = funds
              /\ df_filtered = kept
              /\ summary = SummaryTotals(kept)
                             @@ SummaryRest(kept, required_columns)
              /\ charts = ChartFrames(kept)
              /\ ai = Unset
              /\ exports = {}

NextTopN == AISummary

SpecTopN == InitTopN /\ [][NextTopN]_vars

\* ------------------------------------------------------------ claims

\* A group of names (summary, charts, ai) has been assigned.
Assigned(x) == DOMAIN x # {}

\* The row has the metric columns of lines 40-48.
HasMetrics(row) == "MOIC" \in DOMAIN row

\* A file is uploaded whose stripped headers lack a required column.
MissingRequiredColumn ==
    /\ uploaded_file
    /\ \/ InvestmentNameCol \notin df_columns
       \/ CostCol \notin df_columns
       \/ FairValueCol \notin df_columns
       \/ DateCol \notin df_columns
       \/ FundNameCol \notin df_columns

\* In a run whose table lacks a required column nothing past the column
\* check has run.
NothingComputed ==
    /\ pc \in {"columns", "end"}
    /\ pc = "columns" => status = "running"
    /\ pc = "end" => status = "missing_columns"
    /\ \A i \in 1..Len(df) : ~HasMetrics(df[i])
    /\ unique_funds = {} /\ selected_funds = {} /\ df_filtered = << >>
    /\ ~Assigned(summary) /\ ~Assigned(charts) /\ ~Assigned(ai)
    /\ exports = {}

\* C1: when a required column is absent from the stripped headers the
\* run ends in the missing-column error state; no row is dropped or
\* parsed (the frame stays as read), no per-record metric is computed and
\* no filter, aggregate or export step is reached in that run.
C1_MissingColumnHaltsRun ==
    /\ [](MissingRequiredColumn => NothingComputed)
    /\ [][MissingRequiredColumn /\ status = "running"
            => df' = df /\ status' = "missing_columns"]_vars

\* A run has ended with the missing-column error on a table with rows.
C1_Witness ==
    /\ MissingRequiredColumn
    /\ status = "missing_columns"
    /\ Len(df) = MaxRows

\* The rows the specification keeps: numeric cost and fair value, a date
\* that parses, a name that is neither empty nor missing; in file order.
ValidRow(r) ==
    /\ r.Cost.t = "num" /\ r.FairValue.t = "num" /\ r.Date.t = "ts"
    /\ ~isna(r.InvestmentName) /\ r.InvestmentName.s # << >>

\* C2: on a table with the five required columns normalization keeps, in
\* file order, exactly the rows with numeric cost and fair value, a
\* parseable date and a non-empty name, and raises nothing.
C2_NormalizationKeepsValidRows ==
    [][/\ pc = "dropna" /\ status = "running" => df' = SelectSeq(df, ValidRow)
       /\ pc = "metrics" => status' # "raised"]_vars

\* C3: every normalized record has MOIC = fairValue / cost and
\* ROI = (fairValue - cost) / cost when cost # 0, and the undefined marker
\* (NaN) for both when cost = 0; the computation raises nothing.
C3_RowMetrics ==
    /\ ~(pc = "metrics" /\ status = "raised")
    /\ \A i \in 1..Len(df) :
          HasMetrics(df[i]) =>
             IF df[i].Cost.v # 0
             THEN /\ df[i].MOIC = Frac(df[i].FairValue.v, df[i].Cost.v)
                  /\ df[i].ROI =
                        Frac(df[i].FairValue.v - df[i].Cost.v, df[i].Cost.v)
             ELSE IsNaN(df[i].MOIC) /\ IsNaN(df[i].ROI)

\* The whole days from the investment date to the evaluation instant.
WholeDays(date) ==
    CHOOSE k \in -4..4 :
        LET held == 2 * (today.day - date.day) + (today.half - date.half)
        IN  2 * k <= held /\ held < 2 * (k + 1)

\* C4: a record's annualized ROI is undefined when its whole days held
\* are <= 0 or its cost is not positive, and is otherwise its ROI column
\* divided by (days held / 365.25).
C4_AnnualizedROI ==
    \A i \in 1..Len(df) :
       HasMetrics(df[i]) =>
          LET held == WholeDays(df[i].Date)
          IN  IF held <= 0 \/ df[i].Cost.v <= 0
              THEN IsNaN(df[i].AnnualizedROI)
              ELSE df[i].AnnualizedROI =
                      FDiv(df[i].ROI, Frac(4 * held, 1461))

\* A frame with a record held two days at a gain, one bought less than a
\* day ago, and one of zero cost.
C4_Witness ==
    /\ Len(df) = 3
    /\ \A i \in 1..3 : HasMetrics(df[i])
    /\ \E i, j, k \in 1..3 :
          /\ WholeDays(df[i].Date) = 2 /\ df[i].AnnualizedROI = Frac(1461, 4)
          /\ WholeDays(df[j].Date) = 0 /\ df[j].Cost.v > 0
          /\ IsNaN(df[j].AnnualizedROI)
          /\ df[k].Cost.v = 0 /\ IsNaN(df[k].AnnualizedROI)

\* The cost-weighted mean of the annualized ROI over the records whose
\* annualized ROI is defined; undefined when there is none to weigh.
DefinedWeightedROI(rows) ==
    LET defined == SelectSeq(rows, LAMBDA r : ~IsNaN(r.AnnualizedROI))
    IN  IF defined = << >> \/ SumInt(defined, "Cost") = 0 THEN NaN
        ELSE FDiv(WeightedSum(defined), FromInt(SumInt(defined, "Cost")))

\* C5: the portfolio's and every fund's weighted annualized ROI is
\* sum(annualizedRoi * cost) / sum(cost) over the records of the group
\* whose annualized ROI is defined; a record with an undefined annualized
\* ROI changes nothing.
C5_WeightedROISkipsUndefined ==
    /\ "portfolio_annualized_roi" \in DOMAIN summary =>
          summary.portfolio_annualized_roi = DefinedWeightedROI(df_filtered)
    /\ Assigned(charts) =>
          \A fund \in DOMAIN charts.roi_fund :
             charts.roi_fund[fund] =
                DefinedWeightedROI(FundGroup(df_filtered, fund))

\* C6: on a non-empty filtered set, also one whose costs are all zero, the
\* portfolio metrics and the per-fund aggregations raise nothing, and a
\* metric that cannot be computed is the undefined marker.
C6_AggregatesNeverRaise ==
    /\ ~(status = "raised" /\ pc \in {"summary", "charts"})
    /\ (Assigned(summary) /\ summary.total_invested = 0) =>
          /\ {"portfolio_moic", "portfolio_roi", "portfolio_annualized_roi",
              "dpi", "tvpi"} \subseteq DOMAIN summary
          /\ IsNaN(summary.portfolio_moic) /\ IsNaN(summary.portfolio_roi)

\* MOIC of a group: total fair value over total cost, undefined when the
\* total cost is 0.
DefinedMOIC(rows) ==
    IF SumInt(rows, "Cost") = 0 THEN NaN
    ELSE Frac(SumInt(rows, "FairValue"), SumInt(rows, "Cost"))

\* C7: aggregation by fund has exactly one row per distinct fund name of
\* the filtered set, with MOIC = sum(fairValue) / sum(cost) over the
\* fund's records; a group's or the portfolio's MOIC is the undefined
\* marker when its total cost is 0.
C7_FundMOIC ==
    /\ Assigned(charts) =>
          /\ DOMAIN charts.moic_by_fund =
                {df_filtered[i].FundName.s : i \in 1..Len(df_filtered)}
          /\ \A fund \in DOMAIN charts.moic_by_fund :
                charts.moic_by_fund[fund] =
                   DefinedMOIC(FundGroup(df_filtered, fund))
    /\ Assigned(summary) =>
          summary.portfolio_moic = DefinedMOIC(df_filtered)

\* The records dated on or before d.
UpTo(rows, d) == SelectSeq(rows, LAMBDA r : ~DateLess(d, r.Date))

\* C8: the cumulative series has one entry per distinct date of the
\* filtered set, in strictly ascending date order; each entry holds the
\* sums of cost and fair value over the records dated on or before it; so
\* both columns never decrease when no cost or fair value is negative,
\* and the last entry holds the filtered totals.
C8_CumulativeSeries ==
    Assigned(charts) =>
       LET series == charts.cost_value_df
           n == Len(series)
       IN  /\ {series[k].Date : k \in 1..n} =
                 {df_filtered[i].Date : i \in 1..Len(df_filtered)}
           /\ \A k \in 1..(n - 1) : DateLess(series[k].Date, series[k + 1].Date)
           /\ \A k \in 1..n :
                 /\ series[k].Cost =
                       SumInt(UpTo(df_filtered, series[k].Date), "Cost")
                 /\ series[k].FairValue =
                       SumInt(UpTo(df_filtered, series[k].Date), "FairValue")
           /\ (\A i \in 1..Len(df_filtered) :
                  df_filtered[i].Cost.v >= 0 /\ df_filtered[i].FairValue.v >= 0)
                 => \A k \in 1..(n - 1) :
                       /\ series[k].Cost <= series[k + 1].Cost
                       /\ series[k].FairValue <= series[k + 1].FairValue
           /\ n >= 1
           /\ series[n].Cost = summary.total_invested
           /\ series[n].FairValue = summary.total_fair_value

\* A series of two entries built from three records, two of one date, the
\* later date first in the frame.
C8_Witness ==
    /\ Assigned(charts)
    /\ Len(charts.cost_value_df) = 2
    /\ Len(df_filtered) = 3
    /\ DateLess(df_filtered[2].Date, df_filtered[1].Date)
    /\ charts.cost_value_df[1].Cost < charts.cost_value_df[2].Cost

\* The filters have been applied in this run.
PastFilter ==
    \/ pc \in {"summary", "charts", "ai", "export"}
    \/ pc = "end" /\ status \in {"no_match", "complete"}

\* The fields of a record that filtering must not touch.
Core(r) ==
    [InvestmentName |-> r.InvestmentName, Cost |-> r.Cost,
     FairValue |-> r.FairValue, Date |-> r.Date, FundName |-> r.FundName,
     MOIC |-> r.MOIC, ROI |-> r.ROI, AnnualizedROI |-> r.AnnualizedROI]

\* The status criterion: inactive under 'All' or without a status column.
PassesStatus(r) ==
    \/ realization_filter = "All"
    \/ RealizedCol \notin df_columns
    \/ lower(strip(astype_str(r.Realized))) = lower(<<realization_filter>>)

\* The rows of a and b are the same records in the same order.
SameRecords(a, b) ==
    /\ Len(a) = Len(b)
    /\ \A i \in 1..Len(a) : Core(a[i]) = Core(b[i])

\* C9: the filtered set is, in order, exactly the normalized records that
\* satisfy the fund criterion (membership in the selection) and the status
\* criterion, and with 'All' and every listed fund selected it is the
\* whole normalized set, records without a fund name included.
C9_FilterIsSelection ==
    PastFilter =>
       /\ SameRecords(df_filtered,
             SelectSeq(df, LAMBDA r :
                /\ PassesStatus(r)
                /\ ~isna(r.FundName) /\ r.FundName.s \in selected_funds))
       /\ (realization_filter = "All" /\ selected_funds = unique_funds)
             => SameRecords(df_filtered, df)

\* Row i of the frame comes before row k in a stable sort by the metric
\* that puts the undefined values last.
ComesFirst(rows, i, k, ascending) ==
    LET a == rows[i].AnnualizedROI
        b == rows[k].AnnualizedROI
    IN  IF IsNaN(a) \/ IsNaN(b)
        THEN (~IsNaN(a) /\ IsNaN(b)) \/ (IsNaN(a) /\ IsNaN(b) /\ i < k)
        ELSE \/ Before(rows[i], rows[k], ascending)
             \/ ~Before(rows[k], rows[i], ascending) /\ i < k

RECURSIVE StableOrder(_, _, _)
StableOrder(rows, S, ascending) ==
    IF S = {} THEN << >>
    ELSE LET i == CHOOSE j \in S :
                     \A k \in S \ {j} : ComesFirst(rows, j, k, ascending)
         IN  <<rows[i]>> \o StableOrder(rows, S \ {i}, ascending)

\* The first TopN records of that sort.
StableTopN(rows, ascending) ==
    LET sorted == StableOrder(rows, 1..Len(rows), ascending)
    IN  SubSeq(sorted, 1, IF Len(sorted) < TopN THEN Len(sorted) ELSE TopN)

\* C10, as claimed: the top and the lowest list are the first 3 records
\* of a stable sort of the filtered records by annualized ROI with the
\* undefined ones last: min(3, number of filtered records) entries.
C10_TopNUndefinedLast ==
    Assigned(ai) =>
       /\ ai.top_roi_df = StableTopN(df_filtered, FALSE)
       /\ ai.low_roi_df = StableTopN(df_filtered, TRUE)

\* The list holds the best records with a defined metric: as many as
\* there are, up to TopN; each a different defined record of the frame;
\* in the order of the metric; no record left out ranks before one in it.
BestDefined(list, rows, ascending) ==
    LET defined == {i \in 1..Len(rows) : ~IsNaN(rows[i].AnnualizedROI)}
        n == Cardinality(defined)
    IN  /\ Len(list) = (IF n < TopN THEN n ELSE TopN)
        /\ \A k \in 1..Len(list) : \E i \in defined : rows[i] = list[k]
        /\ \A k, m \in 1..Len(list) :
              k < m => /\ list[k].index # list[m].index
                       /\ ~Before(list[m], list[k], ascending)
        /\ \A i \in defined :
              (\A k \in 1..Len(list) : list[k] # rows[i])
                 => \A k \in 1..Len(list) : ~Before(rows[i], list[k], ascending)

\* C10, amended: the top and the lowest list are the first 3 records of
\* a sort by annualized ROI (descending, ascending) of the filtered
\* records whose annualized ROI is defined; records with an undefined
\* one are left out, and equal values come in any order.
C10_TopNOfDefined ==
    Assigned(ai) =>
       /\ BestDefined(ai.top_roi_df, df_filtered, FALSE)
       /\ BestDefined(ai.low_roi_df, df_filtered, TRUE)

\* Five filtered records, four of them with a defined annualized ROI:
\* the top list holds three, the best strictly above the third.
C10_Witness ==
    /\ Assigned(ai)
    /\ Len(df_filtered) = 5
    /\ Len(notnull(df_filtered)) = 4
    /\ Len(ai.top_roi_df) = TopN
    /\ Len(ai.low_roi_df) = TopN
    /\ FLess(ai.top_roi_df[3].AnnualizedROI, ai.top_roi_df[1].AnnualizedROI)

\* A summary metric, a per-fund aggregate, the cumulative series or an
\* export has been produced in this run.
Produced == Assigned(summary) \/ Assigned(charts) \/ exports # {}

\* The run is one that passed every gate: a file is uploaded, the five
\* required columns are among its stripped headers and the filters left
\* at least one record.
PassedGates ==
    /\ uploaded_file
    /\ ~MissingRequiredColumn
    /\ Len(df_filtered) > 0

\* The run stands at the 'no investments match' warning with nothing
\* computed or offered.
EndedWithWarning ==
    /\ pc = "end"
    /\ status = "no_match"
    /\ ~Assigned(summary) /\ ~Assigned(charts) /\ ~Assigned(ai)
    /\ exports = {}

\* C11: summary metrics, per-fund aggregates, the cumulative series and
\* the exports exist only in a run with an uploaded file, all required
\* columns and a non-empty filtered frame, and an export is offered only
\* for a button that was pressed; when the filter step leaves no record
\* the run ends at once with the 'no investments match' warning, with no
\* aggregate computed and no export offered whatever the export buttons
\* were, and it stays so until the next run.
C11_GatedRun ==
    /\ [](Produced => PassedGates)
    /\ []("csv" \in exports => download_csv)
    /\ []("pdf" \in exports => download_pdf)
    /\ [](status = "no_match" => EndedWithWarning)
    /\ [][pc = "filter" /\ status = "running" /\ Len(df_filtered') = 0
            => status' = "no_match"]_vars
    /\ [][pc = "filter" /\ status = "running" /\ Len(df_filtered') > 0
            => status' = "running" /\ pc' = "summary"]_vars

\* A run over a file with records, started by a press of the PDF export
\* button, ended with the warning because the filters selected nothing.
C11_Witness ==
    /\ status = "no_match"
    /\ download_pdf
    /\ Len(df) > 0
    /\ Len(df_filtered) = 0

====
